---- MODULE Spec2Model ----
(***************************************************************************)
(* A model of the table selection state machine of druid-table             *)
(* (src/src/selection.rs): TableSelection and its transitions, driven      *)
(* through a CellDemap that the owning widget may recompute between calls. *)
(***************************************************************************)
EXTENDS Integers, Sequences, FiniteSets, TLC

(***************************************************************************)
(* Bounds of the model.                                                    *)
(***************************************************************************)
\* the longest visual axis a demap covers (visual indices 0..MaxLen-1)
MaxLen == 2
\* focus moves are by offsets in -MaxOffset..MaxOffset
MaxOffset == 1

(***************************************************************************)
(* Option<T>                                                               *)
(***************************************************************************)
None == [some |-> FALSE]
Some(x) == [some |-> TRUE, val |-> x]

(***************************************************************************)
(* Axis and coordinate types.                                              *)
(***************************************************************************)
TableAxis == {"Rows", "Columns"}

cross_axis(axis) == IF axis = "Rows" THEN "Columns" ELSE "Rows"

\* Default::default() of VisIdx
VisIdxDefault == 0

\* mutant of VisIdxAdd: a sum below 0 wraps around in 16 bits
VisIdxAdd_wrapping(idx, amount) == (idx + amount) % 65536

\* VisIdx + VisOffset: the sum, saturating at index 0
VisIdxAdd(idx, amount) == IF idx + amount < 0 THEN 0 ELSE idx + amount

\* VisIdx::ascending
ascending(a, b) == IF a <= b THEN <<a, b>> ELSE <<b, a>>

\* AxisPair::new
AxisPair(row, col) == [row |-> row, col |-> col]

\* Index<TableAxis> for AxisPair
AxisIndex(pair, axis) == IF axis = "Rows" THEN pair.row ELSE pair.col

\* IndexMut<TableAxis> for AxisPair: pair[axis] = value
AxisIndexSet(pair, axis, value) ==
    IF axis = "Rows" THEN [pair EXCEPT !.row = value]
                     ELSE [pair EXCEPT !.col = value]

new_for_axis(axis, main, cross) ==
    LET ca == AxisPair(VisIdxDefault, VisIdxDefault)
    IN  AxisIndexSet(AxisIndexSet(ca, axis, main), cross_axis(axis), cross)

move_by(pair, axis, amount) ==
    AxisIndexSet(pair, axis, VisIdxAdd(AxisIndex(pair, axis), amount))

(***************************************************************************)
(* Cell addresses and the selection variants.                              *)
(***************************************************************************)
SingleCell(vis, log) == [vis |-> vis, log |-> log]

CellRange(focus, extent) == [focus |-> focus, extent |-> extent]

NoSelection == [tag |-> "NoSelection"]
SelSingleCell(sc) == [tag |-> "SingleCell", cell |-> sc]
SelSingleSlice(axis, focus) == [tag |-> "SingleSlice", axis |-> axis, focus |-> focus]
SelCellRange(range) == [tag |-> "CellRange", range |-> range]
SelSliceRange(axis, range) == [tag |-> "SliceRange", axis |-> axis, range |-> range]

(***************************************************************************)
(* CellDemap: per axis, the logical index shown at each visual index.      *)
(* A demap is [Rows |-> s, Columns |-> t], s and t sequences of logical    *)
(* indices; a visual index beyond the sequence has no logical index.       *)
(* The remap engine reorders the items, which are the rows: the rows are   *)
(* shown in logical order or sorted the other way round, the columns stay  *)
(* in logical order.                                                       *)
(***************************************************************************)
Identity(n) == [i \in 1..n |-> i - 1]

Reversed(n) == [i \in 1..n |-> n - i]

RowDemaps == UNION {{Identity(n), Reversed(n)} : n \in 0..MaxLen}

ColumnDemaps == {Identity(n) : n \in 0..MaxLen}

Demaps == {[Rows |-> r, Columns |-> c] : r \in RowDemaps, c \in ColumnDemaps}

get_log_idx(cell_demap, axis, vis) ==
    IF vis < Len(cell_demap[axis]) THEN Some(cell_demap[axis][vis + 1]) ELSE None

get_log_cell(cell_demap, vis) ==
    LET row == get_log_idx(cell_demap, "Rows", vis.row)
        col == get_log_idx(cell_demap, "Columns", vis.col)
    IN  IF row.some /\ col.some THEN Some(AxisPair(row.val, col.val)) ELSE None

(***************************************************************************)
(* Queries of TableSelection.                                              *)
(***************************************************************************)
has_focus(self) == IF self.tag = "NoSelection" THEN FALSE ELSE TRUE

\* mutant of focus: a range answers with its extent
focus_extent(self) ==
    CASE self.tag = "NoSelection" -> None
      [] self.tag = "SingleCell"  -> Some(self.cell)
      [] self.tag = "SingleSlice" -> Some(self.focus)
      [] self.tag = "CellRange"   -> Some(self.range.extent)
      [] self.tag = "SliceRange"  -> Some(self.range.extent)

focus(self) ==
    CASE self.tag = "NoSelection" -> None
      [] self.tag = "SingleCell"  -> Some(self.cell)
      [] self.tag = "SingleSlice" -> Some(self.focus)
      [] self.tag = "CellRange"   -> Some(self.range.focus)
      [] self.tag = "SliceRange"  -> Some(self.range.focus)

vis_focus(self) ==
    LET f == focus(self) IN IF f.some THEN Some(f.val.vis) ELSE None

(***************************************************************************)
(* Transitions of TableSelection.                                          *)
(***************************************************************************)
\* mutant of move_focus_new_vis: NoSelection moves the origin by the offset
move_focus_new_vis_from_origin(self, axis, amount) ==
    CASE self.tag = "NoSelection" -> move_by(AxisPair(0, 0), axis, amount)
      [] self.tag = "SingleCell"  -> move_by(self.cell.vis, axis, amount)
      [] self.tag = "SingleSlice" -> move_by(self.focus.vis, axis, amount)
      [] self.tag = "CellRange"   -> move_by(self.range.focus.vis, axis, amount)
      [] self.tag = "SliceRange"  -> move_by(self.range.focus.vis, self.axis, amount)

\* the visual coordinate move_focus looks up in the demap
move_focus_new_vis(self, axis, amount) ==
    CASE self.tag = "NoSelection" -> AxisPair(0, 0)
      [] self.tag = "SingleCell"  -> move_by(self.cell.vis, axis, amount)
      [] self.tag = "SingleSlice" -> move_by(self.focus.vis, axis, amount)
      [] self.tag = "CellRange"   -> move_by(self.range.focus.vis, axis, amount)
      \* the pattern SliceRange{axis, range} shadows the axis argument
      [] self.tag = "SliceRange"  -> move_by(self.range.focus.vis, self.axis, amount)

\* mutant of move_focus: the moved focus keeps the logical coordinate it had
move_focus_stale_log(self, axis, amount, cell_demap) ==
    LET new_vis == move_focus_new_vis(self, axis, amount)
        log == get_log_cell(cell_demap, new_vis)
        kept == IF focus(self).some THEN focus(self).val.log ELSE log.val
    IN  IF ~log.some THEN None
        ELSE IF self.tag \in {"SingleSlice", "SliceRange"}
             THEN Some(SelSingleSlice(self.axis, SingleCell(new_vis, kept)))
             ELSE Some(SelSingleCell(SingleCell(new_vis, kept)))

\* mutant of move_focus: a range keeps its extent when the focus moves
move_focus_keep_extent(self, axis, amount, cell_demap) ==
    LET new_vis == move_focus_new_vis(self, axis, amount)
        log == get_log_cell(cell_demap, new_vis)
    IN  IF ~log.some THEN None
        ELSE CASE self.tag = "NoSelection" ->
                    Some(SelSingleCell(SingleCell(new_vis, log.val)))
               [] self.tag = "SingleCell" ->
                    Some(SelSingleCell(SingleCell(new_vis, log.val)))
               [] self.tag = "SingleSlice" ->
                    Some(SelSingleSlice(self.axis, SingleCell(new_vis, log.val)))
               [] self.tag = "CellRange" ->
                    Some(SelCellRange(CellRange(SingleCell(new_vis, log.val),
                                                self.range.extent)))
               [] self.tag = "SliceRange" ->
                    Some(SelSliceRange(self.axis,
                                       CellRange(SingleCell(new_vis, log.val),
                                                 self.range.extent)))

move_focus(self, axis, amount, cell_demap) ==
    LET new_vis == move_focus_new_vis(self, axis, amount)
        log == get_log_cell(cell_demap, new_vis)
    IN  IF ~log.some THEN None
        ELSE CASE self.tag = "NoSelection" ->
                    Some(SelSingleCell(SingleCell(new_vis, log.val)))
               [] self.tag = "SingleCell" ->
                    Some(SelSingleCell(SingleCell(new_vis, log.val)))
               [] self.tag = "SingleSlice" ->
                    Some(SelSingleSlice(self.axis, SingleCell(new_vis, log.val)))
               [] self.tag = "CellRange" ->
                    Some(SelSingleCell(SingleCell(new_vis, log.val)))
               [] self.tag = "SliceRange" ->
                    Some(SelSingleSlice(self.axis, SingleCell(new_vis, log.val)))

\* mutant of move_extent: every selection with a focus can be extended
move_extent_any_focus(self, sel) ==
    IF focus(self).some /\ sel.tag = "SingleCell"
    THEN Some(SelCellRange(CellRange(focus(self).val, sel.cell)))
    ELSE None

move_extent(self, sel) ==
    CASE self.tag = "SingleCell" /\ sel.tag = "SingleCell" ->
            Some(SelCellRange(CellRange(self.cell, sel.cell)))
      [] self.tag = "CellRange" /\ sel.tag = "SingleCell" ->
            Some(SelCellRange(CellRange(self.range.focus, sel.cell)))
      [] OTHER -> None

\* mutant of select_in_axis: a demap miss clears the selection
select_in_axis_clear_on_miss(self, axis, vis, cell_demap) ==
    LET vis_addr == new_for_axis(axis, vis, VisIdxDefault)
        log_addr == get_log_cell(cell_demap, vis_addr)
    IN  IF log_addr.some
        THEN SelSingleSlice(axis, SingleCell(vis_addr, log_addr.val))
        ELSE NoSelection

\* mutant of select_in_axis: the new slice keeps the cross coordinate of the
\* previous focus
select_in_axis_keep_cross(self, axis, vis, cell_demap) ==
    LET cross == IF focus(self).some
                 THEN AxisIndex(focus(self).val.vis, cross_axis(axis))
                 ELSE VisIdxDefault
        vis_addr == new_for_axis(axis, vis, cross)
        log_addr == get_log_cell(cell_demap, vis_addr)
    IN  IF log_addr.some
        THEN SelSingleSlice(axis, SingleCell(vis_addr, log_addr.val))
        ELSE self

select_in_axis(self, axis, vis, cell_demap) ==
    LET vis_addr == new_for_axis(axis, vis, VisIdxDefault)
        log_addr == get_log_cell(cell_demap, vis_addr)
    IN  IF log_addr.some
        THEN SelSingleSlice(axis, SingleCell(vis_addr, log_addr.val))
        ELSE self

\* mutant of extend_in_axis: the new corner becomes the focus of the range
extend_in_axis_swapped(self, axis, vis, cell_demap) ==
    IF focus(self).some
    THEN LET vis_addr == new_for_axis(axis, vis, VisIdxDefault)
             log_addr == get_log_cell(cell_demap, vis_addr)
         IN  IF log_addr.some
             THEN SelSliceRange(axis, CellRange(SingleCell(vis_addr, log_addr.val),
                                                focus(self).val))
             ELSE self
    ELSE select_in_axis(self, axis, vis, cell_demap)

\* mutant of extend_in_axis: without a focus nothing is selected
extend_in_axis_no_delegate(self, axis, vis, cell_demap) ==
    IF focus(self).some
    THEN LET vis_addr == new_for_axis(axis, vis, VisIdxDefault)
             log_addr == get_log_cell(cell_demap, vis_addr)
         IN  IF log_addr.some
             THEN SelSliceRange(axis, CellRange(focus(self).val,
                                                SingleCell(vis_addr, log_addr.val)))
             ELSE self
    ELSE self

extend_in_axis(self, axis, vis, cell_demap) ==
    IF focus(self).some
    THEN LET vis_addr == new_for_axis(axis, vis, VisIdxDefault)
             log_addr == get_log_cell(cell_demap, vis_addr)
         IN  IF log_addr.some
             THEN SelSliceRange(axis, CellRange(focus(self).val,
                                                SingleCell(vis_addr, log_addr.val)))
             ELSE self
    ELSE select_in_axis(self, axis, vis, cell_demap)

\* mutant of extend_from_focus_in_axis: the slice reuses the stored focus cell
extend_from_focus_in_axis_stored(self, axis, cell_demap) ==
    LET f == focus(self)
    IN  IF ~f.some THEN None
        ELSE IF get_log_cell(cell_demap, f.val.vis).some
             THEN Some(SelSingleSlice(axis, f.val))
             ELSE None

extend_from_focus_in_axis(self, axis, cell_demap) ==
    LET vf == vis_focus(self)
    IN  IF ~vf.some THEN None
        ELSE LET log_focus == get_log_cell(cell_demap, vf.val)
             IN  IF log_focus.some
                 THEN Some(SelSingleSlice(axis, SingleCell(vf.val, log_focus.val)))
                 ELSE None

(***************************************************************************)
(* TextCell (src/src/columns.rs): a cell renderer that caches the font     *)
(* family it resolved. The backend of a PaintCtx resolves a set of family  *)
(* names; a resolved FontFamily is known by the name it was resolved from. *)
(***************************************************************************)
FontNames == {"Gill Sans", "Courier"}
FontSizes == {"TEXT_SIZE_NORMAL", "TEXT_SIZE_LARGE"}
Colors == {"BLACK", "WHITE"}

FontFamily(name) == [family |-> name]

\* TextCell::new
TextCell_new ==
    [text_color |-> "BLACK", font_name |-> "Gill Sans",
     font_size |-> "TEXT_SIZE_NORMAL", cached_font |-> None]

\* TextCell::text_color
text_color(self, color) == [self EXCEPT !.text_color = color]

\* TextCell::font_name
font_name(self, name) == [self EXCEPT !.font_name = name]

\* TextCell::font_size
font_size(self, size) == [self EXCEPT !.font_size = size]

\* ctx.text().font_family(name): the family, when the backend resolves it
font_family(fonts, name) == IF name \in fonts THEN Some(FontFamily(name)) ELSE None

\* TextCell::resolve_font: the lookup of the font name, unwrapped by the
\* code (an Option that is none stands for the panic of unwrap)
resolve_font(self, fonts) == font_family(fonts, self.font_name)

\* TextCell::paint_impl: the text drawn, none when the layout is not built
paint_impl(self, layout_ok, font) ==
    IF layout_ok
    THEN Some([font |-> font, size |-> self.font_size, color |-> self.text_color])
    ELSE None

\* what a call of init or paint ends in: the cell after it, whether the
\* warning line was stroked, and the text drawn
CellReturned(self, marker, text) ==
    [tag |-> "Returned", self |-> self, marker |-> marker, text |-> text]

CellPanicked(self) == [tag |-> "Panicked", self |-> self]

\* CellRender<String> for TextCell, init
text_cell_init(self, fonts) ==
    IF ~self.cached_font.some
    THEN LET font == resolve_font(self, fonts)
         IN IF ~font.some THEN CellPanicked(self)
            ELSE CellReturned([self EXCEPT !.cached_font = Some(font.val)], FALSE, None)
    ELSE CellReturned(self, FALSE, None)

\* CellRender<String> for TextCell, paint
text_cell_paint(self, fonts, layout_ok) ==
    IF self.cached_font.some
    THEN CellReturned(self, FALSE, paint_impl(self, layout_ok, self.cached_font.val))
    ELSE LET font == resolve_font(self, fonts)
         IN IF ~font.some THEN CellPanicked(self)
            ELSE CellReturned(self, TRUE, paint_impl(self, layout_ok, font.val))

(***************************************************************************)
(* The state: the widget's selection, the current demap, a text cell, the  *)
(* last call made and what it returned.                                    *)
(***************************************************************************)
VARIABLES selection, cell_demap, text_cell, call, ret

vars == <<selection, cell_demap, text_cell, call, ret>>

Call(name, axis, n, arg) == [name |-> name, axis |-> axis, n |-> n, arg |-> arg]

Offsets == (0 - MaxOffset)..MaxOffset

\* visual indices passed by callers; MaxLen is beyond every demap
VisArgs == 0..MaxLen

\* the cells the current demap maps
MappedCells(demap) ==
    {SingleCell(AxisPair(r, c), get_log_cell(demap, AxisPair(r, c)).val) :
        r \in 0..(Len(demap["Rows"]) - 1), c \in 0..(Len(demap["Columns"]) - 1)}

\* arguments of move_extent: every mapped cell, and one selection of each
\* other variant
ExtentArgs(demap) ==
    {NoSelection}
    \cup {SelSingleCell(c) : c \in MappedCells(demap)}
    \cup UNION {{SelSingleSlice("Rows", c), SelCellRange(CellRange(c, c)),
                 SelSliceRange("Columns", CellRange(c, c))} :
                c \in {d \in MappedCells(demap) : d.vis = AxisPair(0, 0)}}

Init ==
    /\ selection = NoSelection
    /\ text_cell = TextCell_new
    /\ cell_demap \in Demaps
    /\ call = Call("init", "Rows", 0, NoSelection)
    /\ ret = None

MoveFocus(axis, amount) ==
    /\ ret' = move_focus(selection, axis, amount, cell_demap)
    /\ call' = Call("move_focus", axis, amount, NoSelection)
    /\ UNCHANGED <<selection, cell_demap, text_cell>>

MoveExtent(sel) ==
    /\ ret' = move_extent(selection, sel)
    /\ call' = Call("move_extent", "Rows", 0, sel)
    /\ UNCHANGED <<selection, cell_demap, text_cell>>

ExtendInAxis(axis, vis) ==
    /\ selection' = extend_in_axis(selection, axis, vis, cell_demap)
    /\ call' = Call("extend_in_axis", axis, vis, NoSelection)
    /\ ret' = None
    /\ UNCHANGED <<cell_demap, text_cell>>

SelectInAxis(axis, vis) ==
    /\ selection' = select_in_axis(selection, axis, vis, cell_demap)
    /\ call' = Call("select_in_axis", axis, vis, NoSelection)
    /\ ret' = None
    /\ UNCHANGED <<cell_demap, text_cell>>

ExtendFromFocusInAxis(axis) ==
    /\ ret' = extend_from_focus_in_axis(selection, axis, cell_demap)
    /\ call' = Call("extend_from_focus_in_axis", axis, 0, NoSelection)
    /\ UNCHANGED <<selection, cell_demap, text_cell>>

\* the caller applies a returned selection only when it is some
ApplyResult ==
    /\ ret.some
    /\ selection' = ret.val
    /\ call' = Call("apply", "Rows", 0, NoSelection)
    /\ ret' = None
    /\ UNCHANGED <<cell_demap, text_cell>>

\* data change, then remap recompute: the widget's demap is replaced
Remap ==
    /\ cell_demap' \in Demaps \ {cell_demap}
    /\ call' = Call("remap", "Rows", 0, NoSelection)
    /\ ret' = None
    /\ UNCHANGED <<selection, text_cell>>

Next ==
    \/ \E axis \in TableAxis, amount \in Offsets : MoveFocus(axis, amount)
    \/ \E sel \in ExtentArgs(cell_demap) : MoveExtent(sel)
    \/ \E axis \in TableAxis, vis \in VisArgs : ExtendInAxis(axis, vis)
    \/ \E axis \in TableAxis, vis \in VisArgs : SelectInAxis(axis, vis)
    \/ \E axis \in TableAxis : ExtendFromFocusInAxis(axis)
    \/ ApplyResult
    \/ Remap

Spec == Init /\ [][Next]_vars

\* the selection driven through a demap that never changes
NextFixed ==
    \/ \E axis \in TableAxis, amount \in Offsets : MoveFocus(axis, amount)
    \/ \E sel \in ExtentArgs(cell_demap) : MoveExtent(sel)
    \/ \E axis \in TableAxis, vis \in VisArgs : ExtendInAxis(axis, vis)
    \/ \E axis \in TableAxis, vis \in VisArgs : SelectInAxis(axis, vis)
    \/ \E axis \in TableAxis : ExtendFromFocusInAxis(axis)
    \/ ApplyResult

SpecFixed == Init /\ [][NextFixed]_vars

(***************************************************************************)
(* Properties of the selection transitions.                                *)
(***************************************************************************)
\* does the demap map the visual coordinate
Maps(demap, vis) == get_log_cell(demap, vis).some

\* the cell at a visual index on an axis, 0 on the cross axis
AxisCellVis(axis, n) == IF axis = "Rows" THEN AxisPair(n, 0) ELSE AxisPair(0, n)

\* C1: a successful move_focus maps NoSelection, SingleCell and CellRange to
\* SingleCell, and SingleSlice and SliceRange to SingleSlice on the same slice
\* axis; it succeeds exactly when the demap maps the cell it looks up.
C1_MoveFocusVariants ==
    call.name = "move_focus" =>
        /\ ret.some <=> Maps(cell_demap,
                             move_focus_new_vis(selection, call.axis, call.n))
        /\ ret.some =>
            /\ selection.tag \in {"NoSelection", "SingleCell", "CellRange"}
                   => /\ ret.val.tag = "SingleCell"
                      /\ DOMAIN ret.val = {"tag", "cell"}
            /\ selection.tag \in {"SingleSlice", "SliceRange"}
                   => /\ ret.val.tag = "SingleSlice"
                      /\ DOMAIN ret.val = {"tag", "axis", "focus"}
                      /\ ret.val.axis = selection.axis

C1_Witness ==
    /\ call.name = "move_focus"
    /\ selection.tag = "CellRange"
    /\ selection.range.extent # selection.range.focus
    /\ ret.some
    /\ ret.val.tag = "SingleCell"

\* C2: a successful move_focus on a selection with a focus returns a focus
\* whose visual coordinate is the old one with the offset added on the axis
\* passed as argument, and whose logical coordinate is the demap of it.
C2_FocusMovedOnArgumentAxis ==
    (call.name = "move_focus" /\ has_focus(selection) /\ ret.some) =>
        LET old == focus(selection).val.vis
            new == focus(ret.val).val
            expected == IF call.axis = "Rows"
                        THEN AxisPair(VisIdxAdd(old.row, call.n), old.col)
                        ELSE AxisPair(old.row, VisIdxAdd(old.col, call.n))
        IN  /\ new.vis = expected
            /\ Some(new.log) = get_log_cell(cell_demap, expected)

\* C3: move_focus on NoSelection ignores axis and offset: it returns the
\* SingleCell at visual (0,0) when the demap maps (0,0), and none otherwise.
C3_MoveFocusFromNoSelection ==
    (call.name = "move_focus" /\ selection.tag = "NoSelection") =>
        LET origin == AxisPair(0, 0)
        IN  IF Maps(cell_demap, origin)
            THEN ret = Some(SelSingleCell(
                         SingleCell(origin, get_log_cell(cell_demap, origin).val)))
            ELSE ret = None

C3_Witness ==
    /\ call.name = "move_focus"
    /\ selection.tag = "NoSelection"
    /\ call.axis = "Rows"
    /\ call.n = 1
    /\ Maps(cell_demap, AxisPair(1, 0))
    /\ ret.some

\* C4: when the demap misses the coordinate an operation looks up, move_focus
\* and extend_from_focus_in_axis return none and select_in_axis and
\* extend_in_axis change nothing; the selection is as it was.
C4_DemapMissStep ==
    /\ (/\ call'.name = "move_focus"
        /\ ~Maps(cell_demap, move_focus_new_vis(selection, call'.axis, call'.n)))
           => (ret' = None /\ selection' = selection)
    /\ (/\ call'.name = "extend_from_focus_in_axis"
        /\ has_focus(selection)
        /\ ~Maps(cell_demap, focus(selection).val.vis))
           => (ret' = None /\ selection' = selection)
    /\ (/\ call'.name \in {"select_in_axis", "extend_in_axis"}
        /\ ~Maps(cell_demap, AxisCellVis(call'.axis, call'.n)))
           => selection' = selection

C4_DemapMissLeavesSelection == [][C4_DemapMissStep]_vars

C4_Witness ==
    /\ call.name = "extend_in_axis"
    /\ ~Maps(cell_demap, AxisCellVis(call.axis, call.n))
    /\ selection.tag = "CellRange"

\* C5: move_extent returns a CellRange exactly for (SingleCell, SingleCell) and
\* (CellRange, SingleCell), with the current focus and the argument as extent,
\* none for every other pair, and never changes the current selection.
C5_MoveExtentStep ==
    call'.name = "move_extent" =>
        /\ selection' = selection
        /\ ret' = IF call'.arg.tag # "SingleCell" THEN None
                  ELSE IF selection.tag = "SingleCell"
                       THEN Some(SelCellRange(
                                CellRange(selection.cell, call'.arg.cell)))
                  ELSE IF selection.tag = "CellRange"
                       THEN Some(SelCellRange(
                                CellRange(selection.range.focus, call'.arg.cell)))
                  ELSE None

C5_MoveExtent == [][C5_MoveExtentStep]_vars

C5_Witness ==
    /\ call.name = "move_extent"
    /\ selection.tag = "CellRange"
    /\ selection.range.focus # selection.range.extent
    /\ ret.some
    /\ ret.val.range.focus = selection.range.focus
    /\ ret.val.range.extent # selection.range.extent

\* C6: extend_in_axis on a selection with a focus, when the demap maps the
\* cell (vis on the axis, 0 on the cross axis), sets the selection to the
\* SliceRange on that axis from the unchanged previous focus to that cell.
C6_ExtendInAxisStep ==
    (/\ call'.name = "extend_in_axis"
     /\ has_focus(selection)
     /\ Maps(cell_demap, AxisCellVis(call'.axis, call'.n)))
        => selection' =
             SelSliceRange(call'.axis,
                 CellRange(focus(selection).val,
                     SingleCell(AxisCellVis(call'.axis, call'.n),
                         get_log_cell(cell_demap,
                                      AxisCellVis(call'.axis, call'.n)).val)))

C6_ExtendInAxis == [][C6_ExtendInAxisStep]_vars

C6_Witness ==
    /\ call.name = "extend_in_axis"
    /\ selection.tag = "SliceRange"
    /\ selection.axis = call.axis
    /\ selection.range.extent.vis = AxisCellVis(call.axis, call.n)
    /\ selection.range.focus.vis = AxisPair(1, 1)
    /\ Maps(cell_demap, AxisPair(1, 1))
    /\ selection.range.focus.log # get_log_cell(cell_demap, AxisPair(1, 1)).val

\* C7: on NoSelection, extend_in_axis leaves the selection in the state
\* select_in_axis leaves it in, for the same axis, index and demap.
C7_ExtendDelegatesStep ==
    (call'.name = "extend_in_axis" /\ selection.tag = "NoSelection")
        => selection' = select_in_axis(selection, call'.axis, call'.n, cell_demap)

C7_ExtendDelegates == [][C7_ExtendDelegatesStep]_vars

\* with a focus a mapped extend_in_axis gives a SliceRange, so this SingleSlice
\* was selected from NoSelection
C7_Witness ==
    /\ call.name = "extend_in_axis"
    /\ selection.tag = "SingleSlice"
    /\ Maps(cell_demap, AxisCellVis(call.axis, call.n))
    /\ selection.focus.vis = AxisCellVis(call.axis, call.n)

\* C8: select_in_axis, when the demap maps the cell (vis on the axis, 0 on
\* the cross axis), replaces any selection by the SingleSlice on that axis
\* focused on that cell.
C8_SelectInAxisStep ==
    (/\ call'.name = "select_in_axis"
     /\ Maps(cell_demap, AxisCellVis(call'.axis, call'.n)))
        => selection' =
             SelSingleSlice(call'.axis,
                 SingleCell(AxisCellVis(call'.axis, call'.n),
                     get_log_cell(cell_demap,
                                  AxisCellVis(call'.axis, call'.n)).val))

C8_SelectInAxis == [][C8_SelectInAxisStep]_vars

C8_Witness ==
    /\ call.name = "select_in_axis"
    /\ call.axis = "Columns"
    /\ call.n = 1
    /\ Maps(cell_demap, AxisPair(0, 1))
    /\ selection = SelSingleSlice("Columns",
                       SingleCell(AxisPair(0, 1),
                                  get_log_cell(cell_demap, AxisPair(0, 1)).val))

\* C9: extend_from_focus_in_axis never changes the selection; with a focus
\* whose visual coordinate the demap maps it returns the SingleSlice on the
\* given axis at that coordinate with the logical coordinate the demap gives
\* now; on NoSelection it returns none.
C9_ExtendFromFocusStep ==
    call'.name = "extend_from_focus_in_axis" =>
        /\ selection' = selection
        /\ selection.tag = "NoSelection" => ret' = None
        /\ (has_focus(selection) /\ Maps(cell_demap, focus(selection).val.vis))
              => ret' = Some(SelSingleSlice(call'.axis,
                           SingleCell(focus(selection).val.vis,
                               get_log_cell(cell_demap,
                                            focus(selection).val.vis).val)))

C9_ExtendFromFocus == [][C9_ExtendFromFocusStep]_vars

C9_Witness ==
    /\ call.name = "extend_from_focus_in_axis"
    /\ has_focus(selection)
    /\ ret.some
    /\ ret.val.focus.vis = focus(selection).val.vis
    /\ ret.val.focus.log # focus(selection).val.log

\* C10: focus() is none exactly on NoSelection, has_focus() is true exactly
\* when focus() is some, and focus() is the anchor cell: the cell of a
\* SingleCell, the focus of a SingleSlice, the range focus of a CellRange and
\* of a SliceRange.
C10_FocusIsAnchor ==
    /\ (focus(selection) = None) <=> (selection.tag = "NoSelection")
    /\ has_focus(selection) <=> focus(selection).some
    /\ selection.tag = "SingleCell" => focus(selection) = Some(selection.cell)
    /\ selection.tag = "SingleSlice" => focus(selection) = Some(selection.focus)
    /\ selection.tag \in {"CellRange", "SliceRange"}
           => focus(selection) = Some(selection.range.focus)

C10_Witness ==
    /\ selection.tag = "SliceRange"
    /\ selection.range.focus # selection.range.extent
    /\ focus(selection).some

(***************************************************************************)
(* Consistency of the stored coordinates with the demap.                   *)
(***************************************************************************)
\* the cells a selection holds
CellsOf(sel) ==
    CASE sel.tag = "NoSelection" -> {}
      [] sel.tag = "SingleCell"  -> {sel.cell}
      [] sel.tag = "SingleSlice" -> {sel.focus}
      [] sel.tag = "CellRange"   -> {sel.range.focus, sel.range.extent}
      [] sel.tag = "SliceRange"  -> {sel.range.focus, sel.range.extent}

\* the cell's logical coordinate is what the demap maps its visual one to
Consistent(demap, cell) == get_log_cell(demap, cell.vis) = Some(cell.log)

\* C11: with a fixed demap, every cell the selection holds (focus and extent)
\* has the logical coordinate the demap maps its visual coordinate to.
C11_CellsConsistentFixedDemap ==
    \A cell \in CellsOf(selection) : Consistent(cell_demap, cell)

C11_Witness ==
    /\ selection.tag = "CellRange"
    /\ call.name = "apply"
    /\ selection.range.focus.vis = AxisPair(1, 0)
    /\ selection.range.focus.log = AxisPair(0, 0)
    /\ selection.range.extent.vis = AxisPair(0, 1)
    /\ selection.range.extent.log = AxisPair(1, 1)

\* C12 as claimed: after the demap changes, the logical coordinates read from
\* the selection (focus and extent) are what the current demap maps the stored
\* visual coordinates to.
C12_ReadsFollowCurrentDemap ==
    \A cell \in CellsOf(selection) :
        Maps(cell_demap, cell.vis) => Consistent(cell_demap, cell)

\* C12 amended: the cells an operation builds take their logical coordinate
\* from the demap passed to that call: the focus move_focus and
\* extend_from_focus_in_axis return, the slice focus select_in_axis sets and
\* the extent extend_in_axis sets; cells already stored are not re-resolved.
C12_BuiltCellsFollowCurrentDemap ==
    /\ (call.name \in {"move_focus", "extend_from_focus_in_axis"} /\ ret.some)
          => Consistent(cell_demap, focus(ret.val).val)
    /\ (/\ call.name = "select_in_axis"
        /\ Maps(cell_demap, AxisCellVis(call.axis, call.n)))
          => Consistent(cell_demap, selection.focus)
    /\ (/\ call.name = "extend_in_axis"
        /\ Maps(cell_demap, AxisCellVis(call.axis, call.n)))
          => IF selection.tag = "SliceRange"
             THEN Consistent(cell_demap, selection.range.extent)
             ELSE Consistent(cell_demap, selection.focus)

C12_Witness ==
    /\ call.name = "move_focus"
    /\ call.n = 0
    /\ selection.tag = "SingleCell"
    /\ ~Consistent(cell_demap, selection.cell)
    /\ ret.some
    /\ ret.val.cell.vis = selection.cell.vis
    /\ ret.val.cell.log # selection.cell.log

(***************************************************************************)
(* Projections of the selection: per axis, and onto the visible rectangle. *)
(***************************************************************************)
\* IndicesSelection
IndNoSelection == [tag |-> "NoSelection"]
IndSingle(vis) == [tag |-> "Single", idx |-> vis]
IndRange(f, e) == [tag |-> "Range", focus |-> f, extent |-> e]

\* mutant of to_axis_selection: a slice is projected on either axis
to_axis_selection_any_axis(self, for_axis, demap) ==
    CASE self.tag = "NoSelection" -> IndNoSelection
      [] self.tag = "SingleCell"  -> IndSingle(AxisIndex(self.cell.vis, for_axis))
      [] self.tag = "SingleSlice" -> IndSingle(AxisIndex(self.focus.vis, for_axis))
      [] self.tag = "CellRange"   ->
            IndRange(AxisIndex(self.range.focus.vis, for_axis),
                     AxisIndex(self.range.extent.vis, for_axis))
      [] self.tag = "SliceRange"  ->
            IndRange(AxisIndex(self.range.focus.vis, for_axis),
                     AxisIndex(self.range.extent.vis, for_axis))

\* the demap argument is not used
to_axis_selection(self, for_axis, demap) ==
    CASE self.tag = "NoSelection" -> IndNoSelection
      [] self.tag = "SingleCell"  -> IndSingle(AxisIndex(self.cell.vis, for_axis))
      [] self.tag = "SingleSlice" ->
            IF for_axis = self.axis
            THEN IndSingle(AxisIndex(self.focus.vis, self.axis))
            ELSE IndNoSelection
      [] self.tag = "CellRange"   ->
            IndRange(AxisIndex(self.range.focus.vis, for_axis),
                     AxisIndex(self.range.extent.vis, for_axis))
      [] self.tag = "SliceRange"  ->
            IF for_axis = self.axis
            THEN IndRange(AxisIndex(self.range.focus.vis, self.axis),
                          AxisIndex(self.range.extent.vis, self.axis))
            ELSE IndNoSelection

\* CellRect::new((start_row, end_row), (start_col, end_col))
CellRect(rows, cols) ==
    [start_row |-> rows[1], end_row |-> rows[2],
     start_col |-> cols[1], end_col |-> cols[2]]

\* CellRect::range
range(rect, axis) ==
    IF axis = "Rows" THEN <<rect.start_row, rect.end_row>>
                     ELSE <<rect.start_col, rect.end_col>>

contains_idx(rect, axis, idx) ==
    LET r == range(rect, axis) IN r[1] <= idx /\ r[2] >= idx

contains_cell(rect, cell_addr) ==
    /\ contains_idx(rect, "Columns", cell_addr.col)
    /\ contains_idx(rect, "Rows", cell_addr.row)

\* mutant of slice_to_cell_rect: the two ranges are passed the wrong way round
slice_to_cell_rect_swapped(slice, cross_range) ==
    LET main == <<AxisIndex(slice.focus.vis, slice.axis),
                  AxisIndex(slice.focus.vis, slice.axis)>>
        cross == <<VisIdxAdd(cross_range[1], 0 - 1), VisIdxAdd(cross_range[2], 1)>>
    IN  IF slice.axis = "Rows" THEN CellRect(cross, main) ELSE CellRect(main, cross)

\* SingleSlice::to_cell_rect
slice_to_cell_rect(slice, cross_range) ==
    LET main == <<AxisIndex(slice.focus.vis, slice.axis),
                  AxisIndex(slice.focus.vis, slice.axis)>>
        cross == <<VisIdxAdd(cross_range[1], 0 - 1), VisIdxAdd(cross_range[2], 1)>>
    IN  IF slice.axis = "Rows" THEN CellRect(main, cross) ELSE CellRect(cross, main)

\* SliceRange::to_cell_rect
slice_range_to_cell_rect(sr, cross_range) ==
    LET main == ascending(AxisIndex(sr.range.focus.vis, sr.axis),
                          AxisIndex(sr.range.extent.vis, sr.axis))
        cross == <<VisIdxAdd(cross_range[1], 0 - 1), VisIdxAdd(cross_range[2], 1)>>
    IN  IF sr.axis = "Rows" THEN CellRect(main, cross) ELSE CellRect(cross, main)

\* DrawableSelections::new
DrawableSelections(focus_vis, ranges) == [focus |-> focus_vis, ranges |-> ranges]

get_drawable_selections(self, bounding) ==
    CASE self.tag = "SingleCell" /\ contains_cell(bounding, self.cell.vis) ->
            DrawableSelections(Some(self.cell.vis), <<>>)
      [] /\ self.tag = "SingleSlice"
         /\ contains_idx(bounding, self.axis, AxisIndex(self.focus.vis, self.axis)) ->
            DrawableSelections(
                Some(self.focus.vis),
                <<slice_to_cell_rect(self, range(bounding, cross_axis(self.axis)))>>)
      [] self.tag = "CellRange" ->
            LET row == ascending(self.range.focus.vis.row, self.range.extent.vis.row)
                col == ascending(self.range.focus.vis.col, self.range.extent.vis.col)
            IN  DrawableSelections(Some(self.range.focus.vis), <<CellRect(row, col)>>)
      [] /\ self.tag = "SliceRange"
         /\ \/ contains_idx(bounding, self.axis,
                            AxisIndex(self.range.focus.vis, self.axis))
            \/ contains_idx(bounding, self.axis,
                            AxisIndex(self.range.extent.vis, self.axis)) ->
            DrawableSelections(
                Some(self.range.focus.vis),
                <<slice_range_to_cell_rect(self,
                                           range(bounding, cross_axis(self.axis)))>>)
      [] OTHER -> DrawableSelections(None, <<>>)

(***************************************************************************)
(* The projections applied to the selections a table of MaxLen + 1 rows    *)
(* and columns can hold, for every visible rectangle of that table.        *)
(***************************************************************************)
QueryDemap == [Rows |-> Identity(MaxLen + 1), Columns |-> Identity(MaxLen + 1)]

QueryCells == MappedCells(QueryDemap)

\* a slice range's extent is built by extend_in_axis: 0 on the cross axis
QuerySelections ==
    {NoSelection}
    \cup {SelSingleCell(c) : c \in QueryCells}
    \cup {SelSingleSlice(a, c) : a \in TableAxis, c \in QueryCells}
    \cup {SelCellRange(CellRange(f, e)) : f \in QueryCells, e \in QueryCells}
    \cup UNION {{SelSliceRange(a, CellRange(f, e)) :
                    f \in QueryCells,
                    e \in {d \in QueryCells : AxisIndex(d.vis, cross_axis(a)) = 0}} :
                 a \in TableAxis}

\* the visible rectangles: a non-empty range of rows and of columns
BoundingRects ==
    {b \in {CellRect(<<rs, re>>, <<cs, ce>>) :
              rs \in 0..MaxLen, re \in 0..MaxLen, cs \in 0..MaxLen, ce \in 0..MaxLen} :
        b.start_row <= b.end_row /\ b.start_col <= b.end_col}

InitQuery ==
    /\ selection \in QuerySelections
    /\ text_cell = TextCell_new
    /\ cell_demap = QueryDemap
    /\ call = Call("init", "Rows", 0, NoSelection)
    /\ ret = None

ToAxisSelection(for_axis) ==
    /\ ret' = to_axis_selection(selection, for_axis, cell_demap)
    /\ call' = Call("to_axis_selection", for_axis, 0, NoSelection)
    /\ UNCHANGED <<selection, cell_demap, text_cell>>

GetDrawableSelections(bounding) ==
    /\ ret' = get_drawable_selections(selection, bounding)
    /\ call' = Call("get_drawable_selections", "Rows", 0, bounding)
    /\ UNCHANGED <<selection, cell_demap, text_cell>>

NextQuery ==
    \/ \E for_axis \in TableAxis : ToAxisSelection(for_axis)
    \/ \E bounding \in BoundingRects : GetDrawableSelections(bounding)

SpecQuery == InitQuery /\ [][NextQuery]_vars

(***************************************************************************)
(* Properties of the projections.                                          *)
(***************************************************************************)
\* C13: to_axis_selection gives NoSelection for NoSelection, Single of the
\* focus index on the axis for SingleCell, Range of the focus and extent
\* indices on the axis for CellRange; for SingleSlice and SliceRange it gives
\* Single / Range of the indices on the slice axis when that is the requested
\* axis and NoSelection when it is not.
C13_ToAxisSelection ==
    call.name = "to_axis_selection" =>
        LET on_row == call.axis = "Rows"
            At(vis) == IF on_row THEN vis.row ELSE vis.col
        IN  CASE selection.tag = "NoSelection" -> ret = [tag |-> "NoSelection"]
              [] selection.tag = "SingleCell" ->
                    ret = [tag |-> "Single", idx |-> At(selection.cell.vis)]
              [] selection.tag = "CellRange" ->
                    ret = [tag |-> "Range",
                           focus |-> At(selection.range.focus.vis),
                           extent |-> At(selection.range.extent.vis)]
              [] selection.tag = "SingleSlice" ->
                    IF selection.axis = call.axis
                    THEN ret = [tag |-> "Single", idx |-> At(selection.focus.vis)]
                    ELSE ret = [tag |-> "NoSelection"]
              [] selection.tag = "SliceRange" ->
                    IF selection.axis = call.axis
                    THEN ret = [tag |-> "Range",
                                focus |-> At(selection.range.focus.vis),
                                extent |-> At(selection.range.extent.vis)]
                    ELSE ret = [tag |-> "NoSelection"]

C13_Witness ==
    /\ call.name = "to_axis_selection"
    /\ selection.tag = "SliceRange"
    /\ selection.axis # call.axis
    /\ selection.range.focus.vis # selection.range.extent.vis
    /\ ret = [tag |-> "NoSelection"]

\* C14: for a SingleSlice on axis A at index v, when the bounding rect's range
\* on A contains v the result holds exactly one rectangle, [v, v] on A and
\* [cross_start - 1, cross_end + 1] on the cross axis (index arithmetic of
\* VisIdx); otherwise it holds no rectangle and no focus.
C14_SliceDrawable ==
    (call.name = "get_drawable_selections" /\ selection.tag = "SingleSlice") =>
        LET b == call.arg
            on_rows == selection.axis = "Rows"
            v == IF on_rows THEN selection.focus.vis.row ELSE selection.focus.vis.col
            a_start == IF on_rows THEN b.start_row ELSE b.start_col
            a_end == IF on_rows THEN b.end_row ELSE b.end_col
            c_start == IF on_rows THEN b.start_col ELSE b.start_row
            c_end == IF on_rows THEN b.end_col ELSE b.end_row
            lo == VisIdxAdd(c_start, 0 - 1)
            hi == VisIdxAdd(c_end, 1)
        IN  IF a_start <= v /\ v <= a_end
            THEN ret.ranges =
                   << IF on_rows
                      THEN [start_row |-> v, end_row |-> v,
                            start_col |-> lo, end_col |-> hi]
                      ELSE [start_row |-> lo, end_row |-> hi,
                            start_col |-> v, end_col |-> v] >>
            ELSE ret = [focus |-> None, ranges |-> <<>>]

C14_Witness ==
    /\ call.name = "get_drawable_selections"
    /\ selection.tag = "SingleSlice"
    /\ selection.axis = "Rows"
    /\ selection.focus.vis.row = 1
    /\ call.arg = [start_row |-> 0, end_row |-> 2, start_col |-> 1, end_col |-> 1]
    /\ ret.ranges = <<[start_row |-> 1, end_row |-> 1, start_col |-> 0, end_col |-> 2]>>

\* is the cell at a visual address part of the selection
CellSelected(sel, addr) ==
    CASE sel.tag = "NoSelection" -> FALSE
      [] sel.tag = "SingleCell"  -> addr = sel.cell.vis
      [] sel.tag = "SingleSlice" ->
            AxisIndex(addr, sel.axis) = AxisIndex(sel.focus.vis, sel.axis)
      [] sel.tag = "CellRange"   ->
            /\ ascending(sel.range.focus.vis.row, sel.range.extent.vis.row)[1] <= addr.row
            /\ addr.row <= ascending(sel.range.focus.vis.row, sel.range.extent.vis.row)[2]
            /\ ascending(sel.range.focus.vis.col, sel.range.extent.vis.col)[1] <= addr.col
            /\ addr.col <= ascending(sel.range.focus.vis.col, sel.range.extent.vis.col)[2]
      [] sel.tag = "SliceRange"  ->
            LET m == ascending(AxisIndex(sel.range.focus.vis, sel.axis),
                               AxisIndex(sel.range.extent.vis, sel.axis))
            IN  m[1] <= AxisIndex(addr, sel.axis) /\ AxisIndex(addr, sel.axis) <= m[2]

\* C15: the focus get_drawable_selections reports is present only if the
\* focus cell lies within the bounding rect on both axes.
C15_FocusOnlyWithinBounds ==
    (call.name = "get_drawable_selections" /\ ret.focus.some) =>
        /\ call.arg.start_row <= ret.focus.val.row
        /\ ret.focus.val.row <= call.arg.end_row
        /\ call.arg.start_col <= ret.focus.val.col
        /\ ret.focus.val.col <= call.arg.end_col

\* C16: if no cell of the selection lies within the bounding rect, the result
\* has no focus and no rectangle.
C16_NothingVisibleNothingDrawn ==
    (/\ call.name = "get_drawable_selections"
     /\ ~\E r \in call.arg.start_row..call.arg.end_row,
           c \in call.arg.start_col..call.arg.end_col :
             CellSelected(selection, AxisPair(r, c)))
        => ret = [focus |-> None, ranges |-> <<>>]

(***************************************************************************)
(* The remap engine (src/src/columns.rs): ProvidedColumns::remap_items     *)
(* sorts the logical indices of the items by the sort keys of a RemapSpec. *)
(* An item is a tuple of key values, one field per column; a column        *)
(* compares two items on its field.                                        *)
(***************************************************************************)
\* the most items a data source holds
MaxItems == 3
\* the most sort keys a RemapSpec holds
MaxSortKeys == 2

\* the values a field of an item takes
KeyValues == {0, 1}

\* the column indices a sort key may name; the last one is beyond the columns
SortIdxs == {0, 1, 2}

SortDirection == {"Ascending", "Descending"}

\* Ord::cmp, as TextCell::compare applies it to the two values
cmp(a, b) == IF a < b THEN "Less" ELSE IF a > b THEN "Greater" ELSE "Equal"

\* Ordering::reverse
reverse(ord) ==
    IF ord = "Less" THEN "Greater" ELSE IF ord = "Greater" THEN "Less" ELSE ord

\* SortDirection::apply: ascending keeps the ordering, descending reverses it
apply(direction, ord) == IF direction = "Ascending" THEN ord ELSE reverse(ord)

\* SortSpec::new
SortSpec(idx, direction) == [idx |-> idx, direction |-> direction]

\* RemapSpec: the sort keys in order
RemapSpec(keys) == [sort_by |-> keys]

\* RemapSpec::is_empty
is_empty(remap_spec) == remap_spec.sort_by = <<>>

\* Remap::new(): the identity remap, visual == logical
Remap_new == [tag |-> "Pristine"]

\* Remap::Selected(RemapDetails::Full(idxs))
RemapSelectedFull(idxs) ==
    [tag |-> "Selected", details |-> [tag |-> "Full", idxs |-> idxs]]

\* TableColumn::new for a column whose cell compares the given field of an item
TableColumn(field) ==
    [field |-> field, sort_order |-> None, sort_fixed |-> FALSE, sort_dir |-> None]

\* DataCompare for TableColumn: the cell's compare, on the column's field
compare(col, a, b) == cmp(a[col.field], b[col.field])

\* Vec::get on the columns
cols_get(cols, idx) == IF idx < Len(cols) THEN Some(cols[idx + 1]) ELSE None

\* IndexedItems::idx_len
idx_len(table_data) == Len(table_data)

\* the closure remap_items gives to sort_by, on the items a and b: the first
\* key whose column does not compare them Equal decides, with the key's
\* direction applied; unwrap of a column that does not exist panics
RECURSIVE compare_items(_, _, _, _)
compare_items(cols, keys, a, b) ==
    IF keys = <<>> THEN "Equal"
    ELSE LET col == cols_get(cols, Head(keys).idx)
         IN IF ~col.some THEN "Panic"
            ELSE LET ord == compare(col.val, a, b)
                 IN IF ord # "Equal" THEN apply(Head(keys).direction, ord)
                    ELSE compare_items(cols, Tail(keys), a, b)

\* the column indices whose compare the closure calls on the items a and b
RECURSIVE compared_columns(_, _, _, _)
compared_columns(cols, keys, a, b) ==
    IF keys = <<>> THEN {}
    ELSE LET col == cols_get(cols, Head(keys).idx)
         IN IF ~col.some THEN {}
            ELSE IF compare(col.val, a, b) # "Equal" THEN {Head(keys).idx}
            ELSE {Head(keys).idx} \cup compared_columns(cols, Tail(keys), a, b)

\* what a call of remap_items ends in
Returned(remap, compared) ==
    [tag |-> "Returned", remap |-> remap, compared |-> compared]

Panicked == [tag |-> "Panicked"]

\* Vector::sort_by on idxs with the closure, over the items of table_data:
\* a quicksort, which leaves items that compare Equal in any order, so every
\* arrangement of idxs the closure finds in order is a possible outcome. To
\* order two items that tie on the first keys the sort has to compare two
\* items of that tie, so the closure runs on a pair of distinct items up to
\* a key exactly when some pair of distinct items ties on all keys before.
sort_by(idxs, cols, keys, table_data) ==
    LET n == Len(idxs)
        item(l) == table_data[l + 1]
        ord(x, y) == compare_items(cols, keys, item(x), item(y))
        pairs == {p \in (1..n) \X (1..n) : p[1] # p[2]}
    IN IF \E p \in pairs : ord(idxs[p[1]], idxs[p[2]]) = "Panic"
       THEN {Panicked}
       ELSE LET compared ==
                    UNION {compared_columns(cols, keys, item(idxs[p[1]]),
                                            item(idxs[p[2]])) : p \in pairs}
                arranged == {[i \in 1..n |-> idxs[q[i]]] : q \in Permutations(1..n)}
            IN {Returned(s, compared) :
                  s \in {t \in arranged :
                           \A i, j \in 1..n :
                              i < j => ord(t[i], t[j]) # "Greater"}}

\* mutant of remap_items: the indices sorted leave out logical index 0 and
\* list the last one twice
remap_items_from_one(self, table_data, remap_spec) ==
    IF is_empty(remap_spec) THEN {Returned(Remap_new, {})}
    ELSE LET idxs == [i \in 1..idx_len(table_data) |->
                        IF i < idx_len(table_data) THEN i ELSE i - 1]
             sorted == sort_by(idxs, self, remap_spec.sort_by, table_data)
         IN {IF o.tag = "Returned"
             THEN Returned(RemapSelectedFull(o.remap), o.compared)
             ELSE o : o \in sorted}

\* mutant of remap_items: an empty spec sorts as well
remap_items_sort_always(self, table_data, remap_spec) ==
    LET idxs == [i \in 1..idx_len(table_data) |-> i - 1]
        sorted == sort_by(idxs, self, remap_spec.sort_by, table_data)
    IN {IF o.tag = "Returned"
        THEN Returned(RemapSelectedFull(o.remap), o.compared)
        ELSE o : o \in sorted}

\* mutant of remap_items: only the first sort key orders the items
remap_items_first_key(self, table_data, remap_spec) ==
    IF is_empty(remap_spec) THEN {Returned(Remap_new, {})}
    ELSE LET idxs == [i \in 1..idx_len(table_data) |-> i - 1]
             sorted == sort_by(idxs, self, <<Head(remap_spec.sort_by)>>, table_data)
         IN {IF o.tag = "Returned"
             THEN Returned(RemapSelectedFull(o.remap), o.compared)
             ELSE o : o \in sorted}

\* ProvidedColumns::remap_items: the outcomes of a call
remap_items(self, table_data, remap_spec) ==
    IF is_empty(remap_spec) THEN {Returned(Remap_new, {})}
    ELSE LET idxs == [i \in 1..idx_len(table_data) |-> i - 1]
             sorted == sort_by(idxs, self, remap_spec.sort_by, table_data)
         IN {IF o.tag = "Returned"
             THEN Returned(RemapSelectedFull(o.remap), o.compared)
             ELSE o : o \in sorted}

(***************************************************************************)
(* The remap engine as a state machine: the columns, the data source and   *)
(* the RemapSpec of a call are drawn at the start, remap_items is applied  *)
(* to them, and ret holds what the call ended in.                          *)
(***************************************************************************)
\* ProvidedColumns::new on two columns, one per field of an item
ProvidedCols == <<TableColumn(1), TableColumn(2)>>

Items == {<<x, y>> : x \in KeyValues, y \in KeyValues}

RECURSIVE SeqsUpTo(_, _)
\* the sequences over S of length at most n
SeqsUpTo(S, n) ==
    IF n = 0 THEN {<<>>}
    ELSE LET shorter == SeqsUpTo(S, n - 1)
         IN shorter \cup {Append(s, x) : s \in shorter, x \in S}

DataSources == SeqsUpTo(Items, MaxItems)

SortSpecs == {SortSpec(idx, direction) : idx \in SortIdxs, direction \in SortDirection}

RemapSpecs == {RemapSpec(keys) : keys \in SeqsUpTo(SortSpecs, MaxSortKeys)}

InitRemap ==
    /\ selection = NoSelection
    /\ text_cell = TextCell_new
    /\ cell_demap = QueryDemap
    /\ call \in {Call("init", "Rows", 0,
                      [self |-> ProvidedCols, table_data |-> d, remap_spec |-> s]) :
                   d \in DataSources, s \in RemapSpecs}
    /\ ret = None

RemapItems ==
    /\ call.name = "init"
    /\ ret' \in remap_items(call.arg.self, call.arg.table_data, call.arg.remap_spec)
    /\ call' = [call EXCEPT !.name = "remap_items"]
    /\ UNCHANGED <<selection, cell_demap, text_cell>>

NextRemap == RemapItems

SpecRemap == InitRemap /\ [][NextRemap]_vars

(***************************************************************************)
(* Properties of the remap engine.                                         *)
(***************************************************************************)
\* the sort keys of the call name columns that exist
KeysNameColumns ==
    \A k \in 1..Len(call.arg.remap_spec.sort_by) :
        call.arg.remap_spec.sort_by[k].idx < Len(call.arg.self)

\* C18: for a non-empty RemapSpec whose sort keys name existing columns and
\* a data source of n items, remap_items returns Remap::Selected(Full(seq))
\* where seq has length n and holds each logical index of 0..n-1 exactly
\* once.
C18_RemapIsPermutation ==
    (/\ call.name = "remap_items"
     /\ call.arg.remap_spec.sort_by # <<>>
     /\ KeysNameColumns)
        => /\ ret.tag = "Returned"
           /\ ret.remap.tag = "Selected"
           /\ ret.remap.details.tag = "Full"
           /\ LET seq == ret.remap.details.idxs
                  n == Len(call.arg.table_data)
              IN /\ Len(seq) = n
                 /\ \A l \in 0..(n - 1) :
                        Cardinality({i \in 1..Len(seq) : seq[i] = l}) = 1

\* a sort of three items that moves every one of them
C18_Witness ==
    /\ call.name = "remap_items"
    /\ call.arg.remap_spec.sort_by # <<>>
    /\ KeysNameColumns
    /\ ret.tag = "Returned"
    /\ ret.remap.tag = "Selected"
    /\ ret.remap.details.idxs = <<2, 0, 1>>

\* C19: whenever the RemapSpec is empty remap_items returns the identity
\* remap Remap::new(), whatever the data source, and calls the compare of no
\* column.
C19_EmptySpecIsIdentity ==
    (call.name = "remap_items" /\ call.arg.remap_spec.sort_by = <<>>)
        => /\ ret.tag = "Returned"
           /\ ret.remap = Remap_new
           /\ ret.compared = {}

\* an empty spec on items that a sort would reorder
C19_Witness ==
    /\ call.name = "remap_items"
    /\ call.arg.remap_spec.sort_by = <<>>
    /\ call.arg.table_data = <<<<1, 1>>, <<0, 0>>>>
    /\ ret.tag = "Returned"
    /\ ret.remap = Remap_new

\* the value the column of sort key k compares, for the item at logical
\* index l of the call's data source
KeyField(k, l) ==
    call.arg.table_data[l + 1][call.arg.self[call.arg.remap_spec.sort_by[k].idx + 1].field]

\* the items at logical indices x and y compare Equal on every key before k
TieBefore(k, x, y) == \A m \in 1..(k - 1) : KeyField(m, x) = KeyField(m, y)

\* C20: the sequence remap_items returns for a non-empty RemapSpec is ordered
\* by the keys: for visual positions i < j, the first key on which the items
\* at seq[i] and seq[j] differ has the smaller value first when it is
\* ascending and the larger value first when it is descending.
C20_OrderedByKeys ==
    (/\ call.name = "remap_items"
     /\ call.arg.remap_spec.sort_by # <<>>
     /\ ret.tag = "Returned")
        => LET seq == ret.remap.details.idxs
               keys == call.arg.remap_spec.sort_by
           IN \A i, j \in 1..Len(seq) :
                 i < j =>
                    \A k \in 1..Len(keys) :
                       (TieBefore(k, seq[i], seq[j])
                        /\ KeyField(k, seq[i]) # KeyField(k, seq[j]))
                          => IF keys[k].direction = "Ascending"
                             THEN KeyField(k, seq[i]) < KeyField(k, seq[j])
                             ELSE KeyField(k, seq[i]) > KeyField(k, seq[j])

\* two items tie on an ascending first key and a descending second key puts
\* the later one first
C20_Witness ==
    /\ call.name = "remap_items"
    /\ call.arg.remap_spec.sort_by =
          <<SortSpec(0, "Ascending"), SortSpec(1, "Descending")>>
    /\ call.arg.table_data = <<<<1, 0>>, <<0, 0>>, <<1, 1>>>>
    /\ ret.tag = "Returned"
    /\ ret.remap.details.idxs = <<1, 2, 0>>

\* C21: the remap sort is stable: two items that compare Equal on every sort
\* key of the spec appear in the returned sequence in their logical order,
\* the lower logical index first.
C21_SortStable ==
    (/\ call.name = "remap_items"
     /\ call.arg.remap_spec.sort_by # <<>>
     /\ ret.tag = "Returned")
        => LET seq == ret.remap.details.idxs
               keys == call.arg.remap_spec.sort_by
           IN \A i, j \in 1..Len(seq) :
                 (i < j /\ TieBefore(Len(keys) + 1, seq[i], seq[j]))
                    => seq[i] < seq[j]

\* C25: remap_items returns a Remap for every RemapSpec and every data source
\* of at least two items, also when a sort key names a column index that is
\* not less than the number of columns.
C25_RemapNeverPanics ==
    (call.name = "remap_items" /\ Len(call.arg.table_data) >= 2)
        => ret.tag = "Returned"

(***************************************************************************)
(* The column definitions (src/src/columns.rs): the default RemapSpec of   *)
(* ProvidedColumns::initial_spec, and a Vec of per-column renderers or     *)
(* editor factories acting as one, dispatching on the cell's column.       *)
(***************************************************************************)
\* the most columns a table has
MaxCols == 2

\* the sort_order values a column is given
SortOrders == {0, 1}

\* TableColumn::sort
sort(col, direction) == [col EXCEPT !.sort_dir = Some(direction)]

\* TableColumn::fix_sort
fix_sort(col) == [col EXCEPT !.sort_fixed = TRUE]

\* the crate-visible field sort_order of TableColumn, set to Some(order)
with_sort_order(col, order) == [col EXCEPT !.sort_order = Some(order)]

\* the closure initial_spec gives to sort_by, on the columns a and b
sort_order_cmp(a, b) ==
    IF a.sort_order.some /\ b.sort_order.some
    THEN cmp(a.sort_order.val, b.sort_order.val)
    ELSE IF a.sort_order.some THEN "Greater"
    ELSE IF b.sort_order.some THEN "Less"
    ELSE "Equal"

\* self.cols.iter().enumerate().collect(): the columns with their positions
enumerate(cols) == [i \in 1..Len(cols) |-> <<i - 1, cols[i]>>]

\* slice::sort_by on the enumerated columns with the closure: a stable sort,
\* so columns the closure finds Equal keep their order
in_order_sorted(in_order) ==
    LET n == Len(in_order)
        arranged == {[i \in 1..n |-> in_order[q[i]]] : q \in Permutations(1..n)}
    IN CHOOSE s \in arranged :
          \A i, j \in 1..n :
             i < j => LET ord == sort_order_cmp(s[i][2], s[j][2])
                      IN /\ ord # "Greater"
                         /\ ord = "Equal" => s[i][1] < s[j][1]

\* RemapSpec::default
RemapSpec_default == RemapSpec(<<>>)

\* RemapSpec::add_sort: the key is appended
add_sort(spec, s) == RemapSpec(Append(spec.sort_by, s))

\* the loop of initial_spec over the columns that have a sort_dir
RECURSIVE add_sorted_columns(_, _)
add_sorted_columns(spec, in_order) ==
    IF in_order = <<>> THEN spec
    ELSE LET idx == Head(in_order)[1]
             c == Head(in_order)[2]
         IN add_sorted_columns(
                IF c.sort_dir.some THEN add_sort(spec, SortSpec(idx, c.sort_dir.val))
                                   ELSE spec,
                Tail(in_order))

\* mutant of initial_spec: a key carries the column's position after ordering
initial_spec_ordered_position(self) ==
    LET sorted == in_order_sorted(enumerate(self))
    IN add_sorted_columns(RemapSpec_default,
                          [i \in 1..Len(sorted) |-> <<i - 1, sorted[i][2]>>])

\* ProvidedColumns::initial_spec
initial_spec(self) ==
    add_sorted_columns(RemapSpec_default, in_order_sorted(enumerate(self)))

\* ProvidedColumns::sort_fixed
sort_fixed(self, idx) ==
    LET c == cols_get(self, idx) IN IF c.some THEN c.val.sort_fixed ELSE FALSE

\* CellCtx
CellCtxAbsent == [tag |-> "Absent"]
CellCtxCell(cell) == [tag |-> "Cell", cell |-> cell]
CellCtxHeader(axis, idx, sort_spec) ==
    [tag |-> "Header", axis |-> axis, idx |-> idx, sort_spec |-> sort_spec]

\* mutant of vec_paint: a column index beyond the columns paints the last one
vec_paint_clamped(self, cell) ==
    IF cell.tag = "Cell" /\ self # <<>>
    THEN IF cell.cell.log.col < Len(self) THEN {self[cell.cell.log.col + 1]}
                                          ELSE {self[Len(self)]}
    ELSE {}

\* CellRender for Vec, paint: the renderers whose paint is called
vec_paint(self, cell) ==
    IF cell.tag = "Cell"
    THEN LET cell_render == cols_get(self, cell.cell.log.col)
         IN IF cell_render.some THEN {cell_render.val} ELSE {}
    ELSE {}

\* EditorFactory::make_editor of one column: an editor of that column
make_editor(ef, cell) == Some([editor_of |-> ef])

\* EditorFactory for Vec, make_editor
vec_make_editor(self, cell) ==
    IF cell.tag = "Cell"
    THEN LET ef == cols_get(self, cell.cell.log.col)
         IN IF ef.some THEN make_editor(ef.val, cell) ELSE None
    ELSE None

(***************************************************************************)
(* The columns as a state machine: the columns are drawn at the start and  *)
(* one of their operations is applied; ret holds what it returned.         *)
(***************************************************************************)
\* the ways a column at position i is set up
ColumnsAt(i) ==
    LET plain == {TableColumn(i)} \cup {fix_sort(TableColumn(i))}
        ordered == plain \cup {with_sort_order(c, o) : c \in plain, o \in SortOrders}
    IN ordered \cup {sort(c, d) : c \in ordered, d \in SortDirection}

RECURSIVE ColumnLists(_)
\* the column lists of n columns
ColumnLists(n) ==
    IF n = 0 THEN {<<>>}
    ELSE {Append(cols, c) : cols \in ColumnLists(n - 1), c \in ColumnsAt(n)}

ProvidedColumnLists == UNION {ColumnLists(n) : n \in 0..MaxCols}

\* the cell contexts a renderer is called with; column MaxCols is beyond
\* every column list
CellCtxs ==
    {CellCtxAbsent}
    \cup {CellCtxCell(SingleCell(AxisPair(0, c), AxisPair(0, c))) : c \in 0..MaxCols}
    \cup {CellCtxHeader("Columns", c, None) : c \in 0..MaxCols}

InitColumns ==
    /\ selection = NoSelection
    /\ text_cell = TextCell_new
    /\ cell_demap = QueryDemap
    /\ call \in {Call("init", "Rows", 0, [self |-> cols, cell |-> CellCtxAbsent]) :
                   cols \in ProvidedColumnLists}
    /\ ret = None

InitialSpec ==
    /\ call.name = "init"
    /\ ret' = initial_spec(call.arg.self)
    /\ call' = [call EXCEPT !.name = "initial_spec"]
    /\ UNCHANGED <<selection, cell_demap, text_cell>>

SortFixed(idx) ==
    /\ call.name = "init"
    /\ ret' = sort_fixed(call.arg.self, idx)
    /\ call' = [call EXCEPT !.name = "sort_fixed", !.n = idx]
    /\ UNCHANGED <<selection, cell_demap, text_cell>>

VecPaint(cell) ==
    /\ call.name = "init"
    /\ ret' = vec_paint(call.arg.self, cell)
    /\ call' = [call EXCEPT !.name = "paint", !.arg.cell = cell]
    /\ UNCHANGED <<selection, cell_demap, text_cell>>

VecMakeEditor(cell) ==
    /\ call.name = "init"
    /\ ret' = vec_make_editor(call.arg.self, cell)
    /\ call' = [call EXCEPT !.name = "make_editor", !.arg.cell = cell]
    /\ UNCHANGED <<selection, cell_demap, text_cell>>

NextColumns ==
    \/ InitialSpec
    \/ \E idx \in 0..MaxCols : SortFixed(idx)
    \/ \E cell \in CellCtxs : VecPaint(cell)
    \/ \E cell \in CellCtxs : VecMakeEditor(cell)

SpecColumns == InitColumns /\ [][NextColumns]_vars

(***************************************************************************)
(* Properties of the column definitions.                                   *)
(***************************************************************************)
\* the column a key of the returned spec names
KeyColumn(k) == call.arg.self[ret.sort_by[k].idx + 1]

\* C22: in the RemapSpec of initial_spec the keys are in ascending order of
\* their columns' sort_order, and the keys of columns without a sort_order
\* come after the keys of all columns that have one.
C22_KeysInSortOrder ==
    call.name = "initial_spec"
        => \A i, j \in 1..Len(ret.sort_by) :
              i < j =>
                 LET a == KeyColumn(i).sort_order
                     b == KeyColumn(j).sort_order
                 IN /\ (a.some /\ b.some) => a.val <= b.val
                    /\ ~(~a.some /\ b.some)

\* C23: initial_spec holds exactly one key for each column that has a
\* sort_dir and none for any other column; a key carries the position of its
\* column in the column list and the column's direction; without any
\* sort_dir the spec is empty.
C23_KeyPerSortedColumn ==
    call.name = "initial_spec"
        => LET cols == call.arg.self
               keys == ret.sort_by
           IN /\ \A c \in 1..Len(cols) :
                    Cardinality({k \in 1..Len(keys) : keys[k].idx = c - 1})
                       = IF cols[c].sort_dir.some THEN 1 ELSE 0
              /\ \A k \in 1..Len(keys) :
                    /\ keys[k].idx < Len(cols)
                    /\ cols[keys[k].idx + 1].sort_dir = Some(keys[k].direction)
              /\ (\A c \in 1..Len(cols) : ~cols[c].sort_dir.some) => keys = <<>>

\* the ordering puts the second column's key first, with its own position
C23_Witness ==
    /\ call.name = "initial_spec"
    /\ Len(call.arg.self) = 2
    /\ call.arg.self[1].sort_order = Some(1)
    /\ call.arg.self[2].sort_order = Some(0)
    /\ ret.sort_by = <<SortSpec(1, "Descending"), SortSpec(0, "Ascending")>>

\* the logical column index of the cell context of the call
CtxColumn == call.arg.cell.cell.log.col

\* C24: a Vec of per-column renderers dispatches to the column at the
\* cell's logical column index only: for a Cell context of column c below
\* the length, paint and make_editor of column c alone are called; for c at
\* or beyond the length and for the Absent and Header contexts no column
\* paints and make_editor returns none.
C24_VecDispatch ==
    /\ call.name = "paint"
          => ret = IF call.arg.cell.tag = "Cell" /\ CtxColumn < Len(call.arg.self)
                   THEN {call.arg.self[CtxColumn + 1]}
                   ELSE {}
    /\ call.name = "make_editor"
          => ret = IF call.arg.cell.tag = "Cell" /\ CtxColumn < Len(call.arg.self)
                   THEN Some([editor_of |-> call.arg.self[CtxColumn + 1]])
                   ELSE None

\* a cell of a column beyond the two columns of the list paints nothing
C24_Witness ==
    /\ call.name = "paint"
    /\ call.arg.cell.tag = "Cell"
    /\ Len(call.arg.self) = 2
    /\ CtxColumn = 2
    /\ ret = {}

(***************************************************************************)
(* TextCell as a state machine: the cell starts as TextCell::new(), the    *)
(* builder methods, init and paint are called on it in any order, with     *)
(* any backend. A panic ends the run.                                      *)
(***************************************************************************)
Backends == SUBSET FontNames

InitTextCell ==
    /\ selection = NoSelection
    /\ cell_demap = QueryDemap
    /\ text_cell = TextCell_new
    /\ call = Call("TextCell::new", "Rows", 0, [fonts |-> {}, value |-> "BLACK"])
    /\ ret = CellReturned(TextCell_new, FALSE, None)

TextColor(color) ==
    /\ ret.tag = "Returned"
    /\ text_cell' = text_color(text_cell, color)
    /\ call' = Call("TextCell::text_color", "Rows", 0, [fonts |-> {}, value |-> color])
    /\ ret' = CellReturned(text_cell', FALSE, None)
    /\ UNCHANGED <<selection, cell_demap>>

FontName(name) ==
    /\ ret.tag = "Returned"
    /\ text_cell' = font_name(text_cell, name)
    /\ call' = Call("TextCell::font_name", "Rows", 0, [fonts |-> {}, value |-> name])
    /\ ret' = CellReturned(text_cell', FALSE, None)
    /\ UNCHANGED <<selection, cell_demap>>

FontSize(size) ==
    /\ ret.tag = "Returned"
    /\ text_cell' = font_size(text_cell, size)
    /\ call' = Call("TextCell::font_size", "Rows", 0, [fonts |-> {}, value |-> size])
    /\ ret' = CellReturned(text_cell', FALSE, None)
    /\ UNCHANGED <<selection, cell_demap>>

TextCellInit(fonts) ==
    /\ ret.tag = "Returned"
    /\ ret' = text_cell_init(text_cell, fonts)
    /\ text_cell' = ret'.self
    /\ call' = Call("TextCell::init", "Rows", 0, [fonts |-> fonts, value |-> "BLACK"])
    /\ UNCHANGED <<selection, cell_demap>>

TextCellPaint(fonts, layout_ok) ==
    /\ ret.tag = "Returned"
    /\ ret' = text_cell_paint(text_cell, fonts, layout_ok)
    /\ text_cell' = ret'.self
    /\ call' = Call("TextCell::paint", "Rows", 0, [fonts |-> fonts, value |-> "BLACK"])
    /\ UNCHANGED <<selection, cell_demap>>

NextTextCell ==
    \/ \E color \in Colors : TextColor(color)
    \/ \E name \in FontNames : FontName(name)
    \/ \E size \in FontSizes : FontSize(size)
    \/ \E fonts \in Backends : TextCellInit(fonts)
    \/ \E fonts \in Backends, layout_ok \in BOOLEAN : TextCellPaint(fonts, layout_ok)

SpecTextCell == InitTextCell /\ [][NextTextCell]_vars

(***************************************************************************)
(* Properties of TextCell.                                                 *)
(***************************************************************************)
\* C26: when the backend cannot resolve the font of the text cell, neither
\* init nor paint fails: the call returns, and a paint that finds no cached
\* font strokes the warning line and goes on.
C26_UnresolvedFontNotFatal ==
    (/\ call.name \in {"TextCell::init", "TextCell::paint"}
     /\ text_cell.font_name \notin call.arg.fonts)
        => /\ ret.tag = "Returned"
           /\ (call.name = "TextCell::paint" /\ ~text_cell.cached_font.some)
                 => ret.marker

\* C28: the font cache is none at construction, the first init fills it, a
\* later init resolves the font again, and paint and the builder methods
\* font_name, font_size and text_color leave the cached font as it is.
C28_FontCacheStep ==
    /\ call'.name = "TextCell::init" /\ ret'.tag = "Returned"
          => text_cell'.cached_font = Some(FontFamily(text_cell.font_name))
    /\ call'.name \in {"TextCell::paint", "TextCell::font_name",
                       "TextCell::font_size", "TextCell::text_color"}
          => text_cell'.cached_font = text_cell.cached_font

C28_FontCache ==
    /\ (call.name = "TextCell::new" => ~text_cell.cached_font.some)
    /\ [][C28_FontCacheStep]_vars

(***************************************************************************)
(* Negative offsets: move_focus and the drawable rectangles against the    *)
(* selections and visible rectangles of a table in logical order.          *)
(***************************************************************************)
NextOffset ==
    \/ \E axis \in TableAxis, amount \in Offsets : MoveFocus(axis, amount)
    \/ \E bounding \in BoundingRects : GetDrawableSelections(bounding)

SpecOffset == InitQuery /\ [][NextOffset]_vars

\* C27: a negative VisOffset never wraps a VisIdx around: move_focus by a
\* negative offset returns none or a focus whose index on each axis is not
\* above the one it had, so an index 0 stays 0; and the rectangle of a slice
\* or slice range starts on the cross axis at index 0 when the bounding rect
\* does (cross_start - 1 is clamped at 0).
C27_NoWraparound ==
    /\ (/\ call.name = "move_focus"
        /\ call.n < 0
        /\ has_focus(selection)
        /\ ret.some)
          => \A axis \in TableAxis :
                AxisIndex(focus(ret.val).val.vis, axis)
                   <= AxisIndex(focus(selection).val.vis, axis)
    /\ (/\ call.name = "get_drawable_selections"
        /\ selection.tag \in {"SingleSlice", "SliceRange"}
        /\ ret.ranges # <<>>
        /\ range(call.arg, cross_axis(selection.axis))[1] = 0)
          => range(ret.ranges[1], cross_axis(selection.axis))[1] = 0

\* a row slice drawn in a visible rectangle that starts at column 0
C27_Witness ==
    /\ call.name = "get_drawable_selections"
    /\ selection.tag = "SingleSlice"
    /\ selection.axis = "Rows"
    /\ call.arg.start_col = 0
    /\ ret.ranges # <<>>
    /\ ret.ranges[1].start_col = 0

(***************************************************************************)
(* The focus over whole runs of the selection.                             *)
(***************************************************************************)
\* C29: once the selection has a focus no operation, applied when it returns
\* some, brings it back to NoSelection; and the first selection with a focus
\* after NoSelection is a SingleCell at (0,0) or a SingleSlice whose
\* cross-axis visual coordinate is 0.
C29_FocusKeptStep ==
    /\ selection # NoSelection => selection' # NoSelection
    /\ (selection = NoSelection /\ selection' # NoSelection)
          => \/ /\ selection'.tag = "SingleCell"
                /\ selection'.cell.vis = AxisPair(0, 0)
             \/ /\ selection'.tag = "SingleSlice"
                /\ AxisIndex(selection'.focus.vis, cross_axis(selection'.axis)) = 0

C29_FocusKept == [][C29_FocusKeptStep]_vars

\* a range, reached from NoSelection through a slice, with a call that misses
\* the demap made on it
C29_Witness ==
    /\ selection.tag = "SliceRange"
    /\ call.name = "select_in_axis"
    /\ ~Maps(cell_demap, new_for_axis(call.axis, call.n, 0))

\* C30: for a SliceRange on axis A, get_drawable_selections returns a
\* rectangle whenever some index of the bounding rect's range on A lies
\* between the focus and the extent on A, in either order, also when focus
\* and extent lie outside the bounding range on opposite sides of it; the
\* rectangle spans the focus and the extent on A.
C30_SliceRangeDrawn ==
    (call.name = "get_drawable_selections" /\ selection.tag = "SliceRange")
        => LET f == AxisIndex(selection.range.focus.vis, selection.axis)
               e == AxisIndex(selection.range.extent.vis, selection.axis)
               lo == IF f <= e THEN f ELSE e
               hi == IF f <= e THEN e ELSE f
               b == range(call.arg, selection.axis)
           IN (\E idx \in b[1]..b[2] : lo <= idx /\ idx <= hi)
                 => /\ ret.ranges # <<>>
                    /\ range(ret.ranges[1], selection.axis) = <<lo, hi>>

====
